---- MODULE Spec2Model ----
(***************************************************************************)
(* Model of scripts/collect.py: the compose-style variable expander        *)
(* (expand_vars), the image collector (collect_images_from_compose and     *)
(* _collect_images_from_env_value) and the final filter loop of main.      *)
(*                                                                         *)
(* A Python str is modelled as a sequence of one-character strings, so     *)
(* that scanning, splitting, trimming and comparing are computed and not   *)
(* assumed.  Python's None / "absent" is the empty tuple None and a        *)
(* present value v is Some(v).                                             *)
(***************************************************************************)
EXTENDS Integers, Sequences, FiniteSets, TLC

VARIABLES
    env,        \* the environment store (dict str -> str)
    \* a call of expand_vars followed pass by pass
    s,          \* the argument s
    cur,        \* local cur
    prev,       \* local prev (None before the first pass)
    passes,     \* number of _VAR_PATTERN.sub passes made
    xpc,        \* "idle" | "loop" | "return"
    \* a run of main
    compose,    \* the parsed --compose document: its services, in order
    base,       \* the parsed --base document: its services, in order
    pc,         \* "idle" | "service" | "environment" | "keys" | "filter" | "done"
    doc,        \* collect_images_from_compose: "compose" or "base"
    sidx,       \* collect_images_from_compose: index of the service at hand
    eidx,       \* collect_images_from_compose: index of the environment entry at hand
    local,      \* collect_images_from_compose: its local set images
    lastVal,    \* argument of the last call of _collect_images_from_env_value
    lastRes,    \* set returned by that call
    images,     \* main: the set images
    sorted,     \* main: sorted(images), the list the filter loop walks
    fidx,       \* main: index of the filter loop in sorted
    out,        \* main: the list out
    stdout,     \* the lines printed
    written     \* the list handed to json.dumps and written to --out

xvars == <<s, cur, prev, passes, xpc>>
mvars == <<compose, base, pc, doc, sidx, eidx, local, lastVal, lastRes,
           images, sorted, fidx, out, stdout, written>>
vars == <<env, s, cur, prev, passes, xpc, compose, base, pc, doc, sidx, eidx,
          local, lastVal, lastRes, images, sorted, fidx, out, stdout, written>>

None == <<>>
Some(v) == <<v>>

(***************************************************************************)
(* str primitives                                                          *)
(***************************************************************************)

\* c.isspace() for the characters that occur in the model
IsSpace(c) == c \in {" ", "\t"}

\* s.startswith(sub) at offset i (1-based)
MatchesAt(sub, str, i) ==
    /\ i >= 1
    /\ i + Len(sub) - 1 <= Len(str)
    /\ \A k \in 1..Len(sub) : str[i + k - 1] = sub[k]

\* str.find(sub) as a 1-based index, 0 when sub does not occur
RECURSIVE FindFrom(_, _, _)
FindFrom(sub, str, i) ==
    IF i + Len(sub) - 1 > Len(str) THEN 0
    ELSE IF MatchesAt(sub, str, i) THEN i
    ELSE FindFrom(sub, str, i + 1)

Find(sub, str) == FindFrom(sub, str, 1)

\* the Python test `sub in str`
In(sub, str) == Find(sub, str) # 0

\* str.split(sep, 1) when sep occurs in str: the part before the first
\* occurrence and the part after it
SplitHead(sep, str) == SubSeq(str, 1, Find(sep, str) - 1)
SplitTail(sep, str) == SubSeq(str, Find(sep, str) + Len(sep), Len(str))

RECURSIVE lstrip(_)
lstrip(str) ==
    IF str # <<>> /\ IsSpace(Head(str)) THEN lstrip(Tail(str)) ELSE str

RECURSIVE rstrip(_)
rstrip(str) ==
    IF str # <<>> /\ IsSpace(str[Len(str)])
    THEN rstrip(SubSeq(str, 1, Len(str) - 1))
    ELSE str

\* str.strip()
strip(str) == rstrip(lstrip(str))

(***************************************************************************)
(* parse_env                                                               *)
(***************************************************************************)

EmptyEnv == [k \in {} |-> <<>>]

\* env[k] = v
EnvSet(e, k, v) == [x \in (DOMAIN e) \cup {k} |-> IF x = k THEN v ELSE e[x]]

\* parse_env over the first n lines of the file
RECURSIVE ParseLines(_, _)
ParseLines(lines, n) ==
    IF n = 0 THEN EmptyEnv
    ELSE LET e == ParseLines(lines, n - 1)
             line == strip(lines[n])
         IN  IF line = <<>> \/ MatchesAt(<<"#">>, line, 1) THEN e
             ELSE IF ~In(<<"=">>, line) THEN e
             ELSE EnvSet(e, strip(SplitHead(<<"=">>, line)), strip(SplitTail(<<"=">>, line)))

parse_env(lines) == ParseLines(lines, Len(lines))

(***************************************************************************)
(* expand_vars                                                             *)
(***************************************************************************)

\* mutant of MaxPasses: one iteration too many
MaxPassesOffByOne == 5 + 1

\* range(5) in expand_vars
MaxPasses == 5

\* index of the first "}" at or after position k, 0 if there is none
RECURSIVE FirstClose(_, _)
FirstClose(str, k) ==
    IF k > Len(str) THEN 0
    ELSE IF str[k] = "}" THEN k
    ELSE FirstClose(str, k + 1)

\* _VAR_PATTERN = \$\{([^}]+)\} tried at position i: the index of the
\* closing brace of the match, 0 if the pattern does not match at i
_VAR_PATTERN(str, i) ==
    IF MatchesAt(<<"$","{">>, str, i)
    THEN LET j == FirstClose(str, i + 2)
         IN  IF j > i + 2 THEN j ELSE 0
    ELSE 0

\* env.get(k, d)
EnvGet(e, k, d) == IF k \in DOMAIN e THEN e[k] ELSE d

\* mutants of repl
replColonDashUnsetOnly(body, whole, e) ==
    IF In(<<":","-">>, body)
    THEN LET var == SplitHead(<<":","-">>, body)
             default == SplitTail(<<":","-">>, body)
         IN  IF var \in DOMAIN e THEN e[var] ELSE default
    ELSE IF In(<<"-">>, body)
    THEN LET var == SplitHead(<<"-">>, body)
             default == SplitTail(<<"-">>, body)
         IN  IF var \in DOMAIN e THEN e[var] ELSE default
    ELSE EnvGet(e, body, whole)

replDashEmptyUnset(body, whole, e) ==
    IF In(<<":","-">>, body)
    THEN LET var == SplitHead(<<":","-">>, body)
             default == SplitTail(<<":","-">>, body)
             val == EnvGet(e, var, <<>>)
         IN  IF val # <<>> THEN val ELSE default
    ELSE IF In(<<"-">>, body)
    THEN LET var == SplitHead(<<"-">>, body)
             default == SplitTail(<<"-">>, body)
             val == EnvGet(e, var, <<>>)
         IN  IF val # <<>> THEN val ELSE default
    ELSE EnvGet(e, body, whole)

replPlainEmpty(body, whole, e) ==
    IF In(<<":","-">>, body)
    THEN LET var == SplitHead(<<":","-">>, body)
             default == SplitTail(<<":","-">>, body)
             val == EnvGet(e, var, <<>>)
         IN  IF val # <<>> THEN val ELSE default
    ELSE IF In(<<"-">>, body)
    THEN LET var == SplitHead(<<"-">>, body)
             default == SplitTail(<<"-">>, body)
         IN  IF var \in DOMAIN e THEN e[var] ELSE default
    ELSE EnvGet(e, body, <<>>)

\* repl(m): body is m.group(1), whole is m.group(0)
repl(body, whole, e) ==
    IF In(<<":","-">>, body)
    THEN LET var == SplitHead(<<":","-">>, body)
             default == SplitTail(<<":","-">>, body)
             val == EnvGet(e, var, <<>>)
         IN  IF val # <<>> THEN val ELSE default
    ELSE IF In(<<"-">>, body)
    THEN LET var == SplitHead(<<"-">>, body)
             default == SplitTail(<<"-">>, body)
         IN  IF var \in DOMAIN e THEN e[var] ELSE default
    ELSE EnvGet(e, body, whole)

\* _VAR_PATTERN.sub(repl, str) from position i on: leftmost matches, not
\* overlapping, the replacement text is not scanned again in the same pass
RECURSIVE SubFrom(_, _, _)
SubFrom(str, i, e) ==
    IF i > Len(str) THEN <<>>
    ELSE LET j == _VAR_PATTERN(str, i)
         IN  IF j # 0
             THEN repl(SubSeq(str, i + 2, j - 1), SubSeq(str, i, j), e)
                      \o SubFrom(str, j + 1, e)
             ELSE <<str[i]>> \o SubFrom(str, i + 1, e)

sub(str, e) == SubFrom(str, 1, e)

\* the for loop of expand_vars, entered with k iterations already made
RECURSIVE ExpandLoop(_, _, _, _)
ExpandLoop(c, p, k, e) ==
    IF k >= MaxPasses \/ p = Some(c) THEN c
    ELSE ExpandLoop(sub(c, e), Some(c), k + 1, e)

expand_vars(str, e) == ExpandLoop(str, None, 0, e)

(***************************************************************************)
(* Inputs of the expand_vars specification                                 *)
(***************************************************************************)

MaxDefaultLen == 2

SeqsUpTo(S, n) == UNION {[1..k -> S] : k \in 0..n}

V == <<"V">>
W == <<"W">>
Names == {V, W}

\* values an environment file can give a variable (already trimmed)
Values == {<<>>, <<"x">>, <<"r",":","1">>, <<"$","{","V","}">>, <<"$","{","W","}">>, <<"y","$","{","W","}">>}

\* default texts: every text without "}" over these characters
DefaultChars == {"d", ":", "-", "$", "{"}
Defaults == SeqsUpTo(DefaultChars, MaxDefaultLen)

Stores == UNION {[K -> Values] : K \in SUBSET Names}

Plain(n) == <<"$","{">> \o n \o <<"}">>
ColonDash(n, d) == <<"$","{">> \o n \o <<":","-">> \o d \o <<"}">>
Dash(n, d) == <<"$","{">> \o n \o <<"-">> \o d \o <<"}">>

Texts ==
    {Plain(n) : n \in Names}
    \cup {ColonDash(n, d) : n \in Names, d \in Defaults}
    \cup {Dash(n, d) : n \in Names, d \in Defaults}
    \cup {ColonDash(n, Plain(m)) : n \in Names, m \in Names}
    \cup {<<"r",":","$","{","V","}"," ","$","{","W","}">>, <<"p","l","a","i","n",":","1">>, <<"$","{","}">>, <<"$","{","V">>}

(***************************************************************************)
(* _collect_images_from_env_value                                          *)
(***************************************************************************)

\* the character class [\s,]
IsDelim(c) == IsSpace(c) \/ c = ","

\* first index at or after i that holds no delimiter (Len + 1 if none)
RECURSIVE SkipDelims(_, _)
SkipDelims(str, i) ==
    IF i <= Len(str) /\ IsDelim(str[i]) THEN SkipDelims(str, i + 1) ELSE i

\* re.split(r"[\s,]+", str), scanning from i with tok the token being read
RECURSIVE SplitFrom(_, _, _)
SplitFrom(str, i, tok) ==
    IF i > Len(str) THEN <<tok>>
    ELSE IF IsDelim(str[i])
    THEN <<tok>> \o SplitFrom(str, SkipDelims(str, i), <<>>)
    ELSE SplitFrom(str, i + 1, Append(tok, str[i]))

re_split(str) == SplitFrom(str, 1, <<>>)

\* the test `(":" in x) or ("@" in x)`
HasTagOrDigest(x) == In(<<":">>, x) \/ In(<<"@">>, x)

\* the for loop over the tokens
TokenImages(toks) ==
    {strip(toks[k]) : k \in {j \in 1..Len(toks) :
        /\ strip(toks[j]) # <<>>
        /\ ~In(<<"$","{">>, strip(toks[j]))
        /\ HasTagOrDigest(strip(toks[j]))}}

\* mutants of _collect_images_from_env_value
collectKeepsMarkedTokens(val, e) ==
    LET x == strip(expand_vars(val, e))
        toks == re_split(x)
    IN  IF x = <<>> THEN {}
        ELSE IF ~In(<<"$","{">>, x) /\ HasTagOrDigest(x) THEN {x}
        ELSE {strip(toks[k]) : k \in {j \in 1..Len(toks) :
                 strip(toks[j]) # <<>> /\ HasTagOrDigest(strip(toks[j]))}}

collectAlwaysSplits(val, e) ==
    LET x == strip(expand_vars(val, e))
    IN  IF x = <<>> THEN {} ELSE TokenImages(re_split(x))

_collect_images_from_env_value(val, e) ==
    LET x == strip(expand_vars(val, e))
    IN  IF x = <<>> THEN {}
        ELSE IF ~In(<<"$","{">>, x) /\ HasTagOrDigest(x) THEN {x}
        ELSE TokenImages(re_split(x))

(***************************************************************************)
(* main: the always-include keys, sorted() and the filter loop             *)
(***************************************************************************)

\* the list of keys main reads from the environment store
KeyVars == <<<<"R","A","G","F","L","O","W","_","I","M","A","G","E">>, <<"T","E","I","_","I","M","A","G","E","_","C","P","U">>, <<"T","E","I","_","I","M","A","G","E","_","G","P","U">>,
             <<"S","A","N","D","B","O","X","_","B","A","S","E","_","P","Y","T","H","O","N","_","I","M","A","G","E">>, <<"S","A","N","D","B","O","X","_","B","A","S","E","_","N","O","D","E","J","S","_","I","M","A","G","E">>>>

\* the body of `for k in [...]` for the key k, on the set imgs
IncludeKey(imgs, k, e) ==
    IF k \in DOMAIN e /\ e[k] # <<>>
    THEN LET v == strip(expand_vars(strip(e[k]), e))
         IN  IF v # <<>> THEN imgs \cup {v} ELSE imgs
    ELSE imgs

RECURSIVE IncludeKeys(_, _, _)
IncludeKeys(imgs, n, e) ==
    IF n = 0 THEN imgs
    ELSE IncludeKey(IncludeKeys(imgs, n - 1, e), KeyVars[n], e)

\* the code points of the characters that occur in the model
CodePoints == {
    <<"\t", 9>>,
    <<" ", 32>>, <<"#", 35>>, <<"$", 36>>, <<",", 44>>, <<"-", 45>>, <<".", 46>>,
    <<"/", 47>>, <<"0", 48>>, <<"1", 49>>, <<"2", 50>>, <<"3", 51>>, <<"4", 52>>,
    <<"5", 53>>, <<"6", 54>>, <<"7", 55>>, <<"8", 56>>, <<"9", 57>>, <<":", 58>>,
    <<"=", 61>>, <<"@", 64>>, <<"A", 65>>, <<"B", 66>>, <<"C", 67>>, <<"D", 68>>,
    <<"E", 69>>, <<"F", 70>>, <<"G", 71>>, <<"H", 72>>, <<"I", 73>>, <<"J", 74>>,
    <<"K", 75>>, <<"L", 76>>, <<"M", 77>>, <<"N", 78>>, <<"O", 79>>, <<"P", 80>>,
    <<"Q", 81>>, <<"R", 82>>, <<"S", 83>>, <<"T", 84>>, <<"U", 85>>, <<"V", 86>>,
    <<"W", 87>>, <<"X", 88>>, <<"Y", 89>>, <<"Z", 90>>, <<"_", 95>>, <<"a", 97>>,
    <<"b", 98>>, <<"c", 99>>, <<"d", 100>>, <<"e", 101>>, <<"f", 102>>, <<"g", 103>>,
    <<"h", 104>>, <<"i", 105>>, <<"j", 106>>, <<"k", 107>>, <<"l", 108>>, <<"m", 109>>,
    <<"n", 110>>, <<"o", 111>>, <<"p", 112>>, <<"q", 113>>, <<"r", 114>>, <<"s", 115>>,
    <<"t", 116>>, <<"u", 117>>, <<"v", 118>>, <<"w", 119>>, <<"x", 120>>, <<"y", 121>>,
    <<"z", 122>>, <<"{", 123>>, <<"}", 125>> }

\* ord(c)
CodePoint(c) == (CHOOSE p \in CodePoints : p[1] = c)[2]

\* the comparison a < b of two str
RECURSIVE LexLess(_, _)
LexLess(a, b) ==
    IF b = <<>> THEN FALSE
    ELSE IF a = <<>> THEN TRUE
    ELSE IF Head(a) = Head(b) THEN LexLess(Tail(a), Tail(b))
    ELSE CodePoint(Head(a)) < CodePoint(Head(b))

\* mutant of SortSet: the set is listed in descending order
RECURSIVE SortSetDescending(_)
SortSetDescending(S) ==
    IF S = {} THEN <<>>
    ELSE LET m == CHOOSE x \in S : \A y \in S : x = y \/ LexLess(y, x)
         IN  <<m>> \o SortSetDescending(S \ {m})

\* sorted(S) for a set S of str
RECURSIVE SortSet(_)
SortSet(S) ==
    IF S = {} THEN <<>>
    ELSE LET m == CHOOSE x \in S : \A y \in S : x = y \/ LexLess(x, y)
         IN  <<m>> \o SortSet(S \ {m})

\* mutants of FilterVerdict
verdictDigestUntagged(i) ==
    IF i = <<>> THEN "empty"
    ELSE IF In(<<"$","{">>, i) THEN "unexpanded"
    ELSE IF ~In(<<":">>, i) THEN "untagged"
    ELSE "keep"

verdictUntaggedSilent(i) ==
    IF i = <<>> THEN "empty"
    ELSE IF In(<<"$","{">>, i) THEN "unexpanded"
    ELSE IF ~In(<<":">>, i) /\ ~In(<<"@">>, i) THEN "empty"
    ELSE "keep"

\* what the body of the filter loop does with the trimmed candidate i
FilterVerdict(i) ==
    IF i = <<>> THEN "empty"
    ELSE IF In(<<"$","{">>, i) THEN "unexpanded"
    ELSE IF ~In(<<":">>, i) /\ ~In(<<"@">>, i) THEN "untagged"
    ELSE "keep"

WarnLine(kind, i) == [kind |-> kind, image |-> i, count |-> 0]
CollectedLine(n) == [kind |-> "collected", image |-> <<>>, count |-> n]

(***************************************************************************)
(* Inputs of a run of main                                                 *)
(***************************************************************************)

MaxEnvLines == 2
MaxServices == 2

\* lines of the environment file
EnvLines == {
    <<"T","A","G","=","1",".","2">>,
    <<" ","T","A","G"," ","="," ">>,
    <<"#"," ","T","A","G","=","9">>,
    <<"R","A","G","F","L","O","W","_","I","M","A","G","E","=","r","a","g",":","$","{","T","A","G","}">>,
    <<"T","E","I","_","I","M","A","G","E","_","C","P","U","=","t","e","i">>,
    <<"T","E","I","_","I","M","A","G","E","_","G","P","U","=","r","e","p","o","/","a","p","p",":","1",".","0">> }

EnvFiles == SeqsUpTo(EnvLines, MaxEnvLines)

NoEnvironment == [kind |-> "none", items |-> <<>>]
DictEnvironment(items) == [kind |-> "dict", items |-> items]
ListEnvironment(items) == [kind |-> "list", items |-> items]

\* service definitions as yaml.safe_load returns them
Services == {
    [image |-> Some(<<"r","e","p","o","/","a","p","p",":","$","{","T","A","G","}">>), environment |-> NoEnvironment],
    [image |-> Some(<<"r","e","p","o","/","a","p","p",":","1",".","0">>),
     environment |-> DictEnvironment(<<
        <<<<"M","O","D","E">>, None>>,
        <<<<"S","A","N","D","B","O","X","_","B","A","S","E","_","P","Y","T","H","O","N","_","I","M","A","G","E">>,
          Some(<<"$","{","S","A","N","D","B","O","X","_","B","A","S","E","_","P","Y","T","H","O","N","_","I","M","A","G","E",":","-","s","b","x",":","l","a","t","e","s","t","}">>)>> >>)],
    [image |-> Some(<<"m","y","i","m","a","g","e">>),
     environment |-> ListEnvironment(<<
        Some(<<"B","A","S","E","=","a",":","1",","," ","b"," ","$","{","X","}",":","2">>), Some(<<"D","E","B","U","G">>), None >>)],
    [image |-> None,
     environment |-> DictEnvironment(<<
        <<<<"I","M","G","S">>, Some(<<" ","i","m","g","@","s","h","a"," "," ","c",":","3"," ">>)>>, <<<<"M","O","D","E">>, Some(<<"p","r","o","d">>)>> >>)],
    [image |-> Some(<<" ","r","e","p","o","/","a","p","p",":","1",".","0"," ">>),
     environment |-> ListEnvironment(<< Some(<<" ">>), Some(<<"D","=","$","{","T","A","G","-","}">>) >>)] }

ComposeDocs == SeqsUpTo(Services, MaxServices)

BaseDocs == {
    <<>>,
    <<[image |-> Some(<<"r","e","p","o","/","a","p","p",":","1",".","0">>), environment |-> DictEnvironment(<<>>)]>>,
    <<[image |-> Some(<<"e","s","@","s","h","a">>),
       environment |-> ListEnvironment(<< Some(<<"T","E","I","=","$","{","T","E","I","_","I","M","A","G","E","_","C","P","U","}">>) >>)]>> }

(***************************************************************************)
(* A run of main, one step per service image, environment entry, return    *)
(* of collect_images_from_compose, and iteration of the filter loop        *)
(***************************************************************************)

MainIdle ==
    /\ compose = <<>>
    /\ base = <<>>
    /\ pc = "idle"
    /\ doc = "compose"
    /\ sidx = 1
    /\ eidx = 1
    /\ local = {}
    /\ lastVal = None
    /\ lastRes = {}
    /\ images = {}
    /\ sorted = <<>>
    /\ fidx = 1
    /\ out = <<>>
    /\ stdout = <<>>
    /\ written = None

ExpandIdle ==
    /\ s = <<>>
    /\ cur = <<>>
    /\ prev = None
    /\ passes = 0
    /\ xpc = "idle"

\* the state when main calls collect_images_from_compose for --compose
Init ==
    /\ \E lines \in EnvFiles : env = parse_env(lines)
    /\ compose \in ComposeDocs
    /\ base \in BaseDocs
    /\ pc = "service"
    /\ doc = "compose"
    /\ sidx = 1
    /\ eidx = 1
    /\ local = {}
    /\ lastVal = None
    /\ lastRes = {}
    /\ images = {}
    /\ sorted = <<>>
    /\ fidx = 1
    /\ out = <<>>
    /\ stdout = <<>>
    /\ written = None
    /\ ExpandIdle

\* services.items() of the document at hand
services == IF doc = "compose" THEN compose ELSE base

\* `if not env_block`
Falsy(block) == block.kind = "none" \/ block.items = <<>>

\* the step to the next service
NextService ==
    /\ sidx' = sidx + 1
    /\ eidx' = 1
    /\ pc' = "service"

\* 1) explicit image, then the test of the environment block
ServiceImage ==
    /\ pc = "service"
    /\ sidx <= Len(services)
    /\ LET svc == services[sidx]
           img == IF svc.image # None /\ svc.image[1] # <<>>
                  THEN strip(expand_vars(svc.image[1], env))
                  ELSE <<>>
       IN  /\ local' = IF img # <<>> THEN local \cup {img} ELSE local
           /\ IF Falsy(svc.environment)
              THEN NextService
              ELSE /\ pc' = "environment"
                   /\ eidx' = 1
                   /\ sidx' = sidx
    /\ UNCHANGED <<env, xvars, compose, base, doc, lastVal, lastRes, images,
                   sorted, fidx, out, stdout, written>>

\* the value of an entry that reaches _collect_images_from_env_value, None
\* for an entry the loops skip
EntryValue(block, k) ==
    IF block.kind = "dict"
    THEN block.items[k][2]
    ELSE LET item == block.items[k]
         IN  IF item = None THEN None
             ELSE IF strip(item[1]) = <<>> THEN None
             ELSE IF In(<<"=">>, strip(item[1]))
             THEN Some(SplitTail(<<"=">>, strip(item[1])))
             ELSE None

\* 2) one entry of the environment block
ScanEnvEntry ==
    /\ pc = "environment"
    /\ LET block == services[sidx].environment
           v == EntryValue(block, eidx)
           found == IF v = None THEN {}
                    ELSE _collect_images_from_env_value(v[1], env)
       IN  /\ lastVal' = v
           /\ lastRes' = found
           /\ local' = local \cup found
           /\ IF eidx < Len(block.items)
              THEN /\ eidx' = eidx + 1
                   /\ UNCHANGED <<sidx, pc>>
              ELSE NextService
    /\ UNCHANGED <<env, xvars, compose, base, doc, images, sorted, fidx, out,
                   stdout, written>>

\* `return images`, and in main `images |= ...`; after the second document
\* the loop over the always-include keys and sorted(images)
ReturnImages ==
    /\ pc = "service"
    /\ sidx > Len(services)
    /\ IF doc = "compose"
       THEN /\ images' = images \cup local
            /\ doc' = "base"
            /\ UNCHANGED <<pc, sorted>>
       ELSE /\ images' = IncludeKeys(images \cup local, Len(KeyVars), env)
            /\ sorted' = SortSet(images')
            /\ pc' = "filter"
            /\ UNCHANGED doc
    /\ sidx' = 1
    /\ eidx' = 1
    /\ local' = {}
    /\ UNCHANGED <<env, xvars, compose, base, lastVal, lastRes, fidx, out,
                   stdout, written>>

\* one iteration of `for i in sorted(images)`
FilterStep ==
    /\ pc = "filter"
    /\ fidx <= Len(sorted)
    /\ LET i == strip(sorted[fidx])
           verdict == FilterVerdict(i)
       IN  /\ out' = IF verdict = "keep" THEN Append(out, i) ELSE out
           /\ stdout' = IF verdict \in {"unexpanded", "untagged"}
                        THEN Append(stdout, WarnLine(verdict, i))
                        ELSE stdout
    /\ fidx' = fidx + 1
    /\ UNCHANGED <<env, xvars, compose, base, pc, doc, sidx, eidx, local,
                   lastVal, lastRes, images, sorted, written>>

\* write_text(json.dumps(out)) and the final print
WriteOut ==
    /\ pc = "filter"
    /\ fidx > Len(sorted)
    /\ written' = Some(out)
    /\ stdout' = Append(stdout, CollectedLine(Len(out)))
    /\ pc' = "done"
    /\ UNCHANGED <<env, xvars, compose, base, doc, sidx, eidx, local, lastVal,
                   lastRes, images, sorted, fidx, out>>

Next == ServiceImage \/ ScanEnvEntry \/ ReturnImages \/ FilterStep \/ WriteOut

Spec == Init /\ [][Next]_vars

Done == pc = "done"

(***************************************************************************)
(* expand_vars as a state machine: one step per iteration of the loop      *)
(***************************************************************************)

InitExpand ==
    /\ env \in Stores
    /\ s \in Texts
    /\ cur = s
    /\ prev = None
    /\ passes = 0
    /\ xpc = "loop"
    /\ MainIdle

\* an iteration that runs the substitution pass
ExpandPass ==
    /\ xpc = "loop"
    /\ passes < MaxPasses
    /\ prev # Some(cur)
    /\ prev' = Some(cur)
    /\ cur' = sub(cur, env)
    /\ passes' = passes + 1
    /\ UNCHANGED <<env, s, xpc, mvars>>

\* `if cur == prev: break`
ExpandBreak ==
    /\ xpc = "loop"
    /\ passes < MaxPasses
    /\ prev = Some(cur)
    /\ xpc' = "return"
    /\ UNCHANGED <<env, s, cur, prev, passes, mvars>>

\* range(5) is exhausted
ExpandExhausted ==
    /\ xpc = "loop"
    /\ passes >= MaxPasses
    /\ xpc' = "return"
    /\ UNCHANGED <<env, s, cur, prev, passes, mvars>>

NextExpand == ExpandPass \/ ExpandBreak \/ ExpandExhausted

SpecExpand == InitExpand /\ [][NextExpand]_vars

\* the interpreter always runs the next iteration of the loop
FairSpecExpand == SpecExpand /\ WF_vars(NextExpand)

Returned == xpc = "return"

(***************************************************************************)
(* Properties of expand_vars                                               *)
(***************************************************************************)

\* the loop of the state machine and the operator expand_vars agree
ResultAgrees == Returned => cur = expand_vars(s, env)

IsSetNonEmpty(n) == n \in DOMAIN env /\ env[n] # <<>>

\* C1 as stated: expand_vars("${V:-D}", E) is E[V] when V is a key of E with
\* a non-empty value, and D otherwise, for every E, V and D without "}".
C1_AsStated ==
    \A n \in Names, d \in Defaults :
        (Returned /\ s = ColonDash(n, d))
            => cur = (IF IsSetNonEmpty(n) THEN env[n] ELSE d)

\* C1 amended: expand_vars("${V:-D}", E) is D when V is missing or empty, and
\* is E[V] when V is set to a non-empty value that holds no "${" marker (a
\* value that holds placeholders is itself expanded by the following passes).
C1_ColonDashDefault ==
    \A n \in Names, d \in Defaults :
        (Returned /\ s = ColonDash(n, d))
            => /\ ~IsSetNonEmpty(n) => cur = d
               /\ (IsSetNonEmpty(n) /\ ~In(<<"$","{">>, env[n])) => cur = env[n]

C1_Witness ==
    \E n \in Names, d \in Defaults :
        /\ Returned /\ s = ColonDash(n, d)
        /\ n \in DOMAIN env /\ env[n] = <<>> /\ d # <<>>
        /\ cur = d

\* C2 as stated: expand_vars("${V-D}", E) is E[V] whenever V is a key of E
\* (also when E[V] is empty) and D otherwise, for every E, V and D without "}".
C2_AsStated ==
    \A n \in Names, d \in Defaults :
        (Returned /\ s = Dash(n, d))
            => cur = (IF n \in DOMAIN env THEN env[n] ELSE d)

\* C2 amended: for a default D that contains no ":-" (a body with ":-" is
\* split there first), expand_vars("${V-D}", E) is D when V is not a key of E,
\* and is E[V] when V is a key whose value holds no "${" marker, the empty
\* value included.
C2_DashDefault ==
    \A n \in Names, d \in Defaults :
        (Returned /\ s = Dash(n, d) /\ ~In(<<":","-">>, d))
            => /\ n \notin DOMAIN env => cur = d
               /\ (n \in DOMAIN env /\ ~In(<<"$","{">>, env[n])) => cur = env[n]

C2_Witness ==
    \E n \in Names, d \in Defaults :
        /\ Returned /\ s = Dash(n, d) /\ d # <<>> /\ ~In(<<":","-">>, d)
        /\ n \in DOMAIN env /\ env[n] = <<>>
        /\ cur = <<>>

\* C3 as stated: expand_vars("${V}", E) is E[V] when V is a key of E and the
\* literal text "${V}" otherwise.
C3_AsStated ==
    \A n \in Names :
        (Returned /\ s = Plain(n))
            => cur = (IF n \in DOMAIN env THEN env[n] ELSE Plain(n))

\* C3 amended: expand_vars("${V}", E) is the literal text "${V}" (never the
\* empty text) when V is not a key of E, and is E[V] when V is a key whose
\* value holds no "${" marker.
C3_PlainReference ==
    \A n \in Names :
        (Returned /\ s = Plain(n))
            => /\ n \notin DOMAIN env => cur = Plain(n)
               /\ (n \in DOMAIN env /\ ~In(<<"$","{">>, env[n])) => cur = env[n]

C3_Witness ==
    \E n \in Names :
        /\ Returned /\ s = Plain(n) /\ n \notin DOMAIN env
        /\ cur = Plain(n) /\ passes = 1

\* C7: expand_vars always returns; it makes at most five substitution passes,
\* stops as soon as a pass left the text unchanged, and what it returns is
\* the text of the last pass, placeholders that are still there included.
C7_BoundedPasses ==
    /\ [](passes <= 5)
    /\ [](Returned => (passes = 5 \/ prev = Some(cur)))
    /\ [][(xpc = "loop" /\ prev = Some(cur)) => xpc' = "return"]_vars
    /\ [][xpc' = "return" => cur' = cur]_vars
    /\ <>Returned

C7_Witness ==
    /\ Returned /\ passes = 5 /\ prev # Some(cur)
    /\ In(<<"$","{">>, cur)
    /\ DOMAIN env = Names /\ env[V] = Plain(W) /\ env[W] = Plain(V)

\* C9: expand_vars("${V:-${W}}", E) is E[V] when V is set to a non-empty
\* value, and otherwise what expand_vars("${W}", E) returns.
C9_NestedDefault ==
    \A n \in Names, m \in Names :
        (Returned /\ s = ColonDash(n, Plain(m)))
            => cur = (IF IsSetNonEmpty(n) THEN env[n]
                      ELSE expand_vars(Plain(m), env))

(***************************************************************************)
(* Properties of the collector and of the filter                           *)
(***************************************************************************)

Range(seq) == {seq[k] : k \in 1..Len(seq)}

HasMarker(x) == \E k \in 1..(Len(x) - 1) : x[k] = "$" /\ x[k + 1] = "{"
HasColonOrAt(x) == \E k \in 1..Len(x) : x[k] \in {":", "@"}

\* collect_images_from_compose is about to return the set local
Returning == pc = "service" /\ sidx > Len(services)

\* C4 as stated: no element of the set collect_images_from_compose returns
\* contains "${", whether it comes from an image field or from an
\* environment value.
C4_AsStated == Returning => \A x \in local : ~HasMarker(x)

\* C4 amended: no candidate that comes from an environment value (the set
\* _collect_images_from_env_value returns) contains "${"; a candidate from an
\* image field is added as expanded and may still contain it.
C4_EnvCandidatesResolved == \A x \in lastRes : ~HasMarker(x)

C4_Witness ==
    /\ lastVal # None
    /\ HasMarker(strip(expand_vars(lastVal[1], env)))
    /\ lastRes # {}

\* the candidates of one service, of one document, and of the run
ServiceCandidates(svc) ==
    (IF svc.image # None /\ svc.image[1] # <<>>
     THEN {strip(expand_vars(svc.image[1], env))} ELSE {})
    \cup UNION {_collect_images_from_env_value(v[1], env) :
            v \in {EntryValue(svc.environment, k) :
                     k \in 1..Len(svc.environment.items)} \ {None}}

DocCandidates(d) == UNION {ServiceCandidates(d[k]) : k \in 1..Len(d)}

KeyCandidates ==
    {strip(expand_vars(env[k], env)) :
        k \in {x \in Range(KeyVars) : x \in DOMAIN env /\ env[x] # <<>>}}

Candidates == DocCandidates(compose) \cup DocCandidates(base) \cup KeyCandidates

Qualifies(x) == x # <<>> /\ ~HasMarker(x) /\ HasColonOrAt(x)

\* C5: the output holds exactly the candidates (from both documents and from
\* the always-include keys that are set and non-empty) that after trimming
\* are non-empty, hold no "${" and hold ":" or "@".
C5_OutputExact ==
    Done => Range(out) = {strip(c) : c \in {x \in Candidates : Qualifies(strip(x))}}

C5_Witness ==
    /\ Done
    /\ \E x \in Range(out) : x \in KeyCandidates /\ x \notin DocCandidates(compose)
    /\ \E x \in Range(out) : x \in DocCandidates(base) /\ x \notin KeyCandidates
    /\ \E x \in Range(out) : \E k \in 1..Len(x) : x[k] = "@"
    /\ \E c \in Candidates : HasMarker(c)
    /\ \E c \in Candidates : ~HasColonOrAt(c)

\* a precedes b in lexicographic order of code points
Precedes(a, b) ==
    \E k \in 1..Len(b) :
        /\ k <= Len(a) + 1
        /\ \A j \in 1..(k - 1) : a[j] = b[j]
        /\ k = Len(a) + 1 \/ CodePoint(a[k]) < CodePoint(b[k])

\* C6: the output list is in strictly ascending lexicographic order, so it is
\* sorted and has no duplicate entry.
C6_SortedNoDuplicates ==
    \A k \in 1..(Len(out) - 1) : Precedes(out[k], out[k + 1])

C6_Witness ==
    /\ Done
    /\ Len(out) >= 2
    /\ Len(compose) = 2
    /\ \E x \in Range(out) :
          /\ x \in ServiceCandidates(compose[1])
          /\ x \in ServiceCandidates(compose[2])
          /\ x \in DocCandidates(base)
          /\ x \in KeyCandidates

Count(seq, line) == Cardinality({k \in 1..Len(seq) : seq[k] = line})

\* C8: at the end of the run every candidate that holds "${" has exactly one
\* "unexpanded" warning, every other candidate without ":" and "@" has
\* exactly one "untagged" warning, neither is in the output, every other
\* candidate is in the output, and the output was written and counted.
C8_SoftFailures ==
    Done =>
        /\ \A c \in images :
            /\ Count(stdout, WarnLine("unexpanded", c)) = (IF HasMarker(c) THEN 1 ELSE 0)
            /\ Count(stdout, WarnLine("untagged", c))
                  = (IF ~HasMarker(c) /\ ~HasColonOrAt(c) THEN 1 ELSE 0)
            /\ (c \in Range(out)) = (~HasMarker(c) /\ HasColonOrAt(c))
        /\ written = Some(out)
        /\ stdout[Len(stdout)] = CollectedLine(Len(out))
        /\ Len(stdout) = 1 + Cardinality({c \in images : HasMarker(c) \/ ~HasColonOrAt(c)})

C8_Witness ==
    /\ Done
    /\ <<"m","y","i","m","a","g","e">> \in images
    /\ <<"m","y","i","m","a","g","e">> \notin Range(out)
    /\ Count(stdout, WarnLine("untagged", <<"m","y","i","m","a","g","e">>)) = 1
    /\ \E c \in images : HasMarker(c)
    /\ out # <<>>
    /\ LexLess(<<"m","y","i","m","a","g","e">>, out[Len(out)])

\* the tokens of x: the maximal runs of characters that are neither
\* whitespace nor a comma
MaximalTokens(x) ==
    {SubSeq(x, a, b) : <<a, b>> \in {p \in (1..Len(x)) \X (1..Len(x)) :
        /\ p[1] <= p[2]
        /\ \A k \in p[1]..p[2] : x[k] \notin {" ", "\t", ","}
        /\ p[1] = 1 \/ x[p[1] - 1] \in {" ", "\t", ","}
        /\ p[2] = Len(x) \/ x[p[2] + 1] \in {" ", "\t", ","}}}

\* C10: with x the expanded and trimmed value, the set returned by
\* _collect_images_from_env_value is {x} when x holds no "${" and holds ":"
\* or "@", and otherwise the set of tokens of x that hold no "${" and hold
\* ":" or "@"; it is empty for an empty x.
C10_EnvValueClassified ==
    lastVal # None =>
        LET x == strip(expand_vars(lastVal[1], env))
        IN  lastRes = IF x = <<>> THEN {}
                      ELSE IF ~HasMarker(x) /\ HasColonOrAt(x) THEN {x}
                      ELSE {t \in MaximalTokens(x) : ~HasMarker(t) /\ HasColonOrAt(t)}

C10_Witness ==
    /\ lastVal # None
    /\ LET x == strip(expand_vars(lastVal[1], env))
       IN  /\ lastRes = {x}
           /\ \E k \in 1..Len(x) : x[k] = " "
====
